---- MODULE Spec2Model ----
(***************************************************************************)
(* Countries (countryfetch): the cache freshness and synchronisation        *)
(* policy of Countries.sync, and the name resolution of Countries.find.     *)
(*                                                                          *)
(* The repository holds three copies of the Countries class:                *)
(*   Main  : src/src/countries.ts                                           *)
(*   PartA : src/unnamed/part_000, lines 13-185                             *)
(*   PartB : src/unnamed/part_000, lines 199-393                            *)
(* They differ in the freshness window, in the check of response.ok and in  *)
(* the handling of a missing flag reference.  The copy that runs is the     *)
(* variable `variant`, fixed in Init.                                       *)
(*                                                                          *)
(* Time is counted in whole hours: the code's 60 * 60 * 1000 ms is one      *)
(* unit of `now`.                                                           *)
(***************************************************************************)
EXTENDS Integers, Sequences, FiniteSets, TLC

VARIABLES
    variant,      \* which copy of the class runs
    now,          \* Date.now(), in hours
    cache,        \* the Cache store: entries "countries", "lastSynced", "flags"
    list,         \* this.list
    names,        \* this.names
    flags,        \* this.flags
    pc,           \* position of the running sync(), "idle" when none runs
    cfg,          \* the config argument of the running sync()
    countries,    \* local `countries` of sync()
    data,         \* local `data` of generateFlagImgs()
    idx,          \* position of the for-of loop of generateFlagImgs(), 1-based
    index,        \* local `index` of generateFlagImgs()
    syncId,       \* history: number of sync() calls started so far
    start,        \* history: arguments, cache and clock at the start of the
                  \* latest sync(), and how the sync() before it ended
    path,         \* history: branch the latest sync() took
    fetchCount,   \* history: fetch() calls issued by the latest sync()
    renderCount,  \* history: getImageStrings() calls issued by the latest sync()
    response,     \* history: the response the latest sync() received
    result,       \* history: how the latest sync() ended
    found,        \* outcome of the latest find()
    progress,     \* history: the logger.progress reports of the latest sync()
    capitalFound, \* outcome of the latest capitalOf()
    picked,       \* outcome of the latest random()
    printed       \* outcome of the latest print()

\* the outcomes of the lookups other than find
lookups == <<capitalFound, picked, printed>>

vars == <<variant, now, cache, list, names, flags, pc, cfg, countries, data,
          idx, index, syncId, start, path, fetchCount, renderCount, response,
          result, found, progress, capitalFound, picked, printed>>

-----------------------------------------------------------------------------
(* Bounds of the model *)

\* the clock at the start of a behaviour, in hours
Epoch == 1200
\* hours the clock may advance in one behaviour
MaxElapsed == 170
\* sync() calls in one behaviour
MaxSyncs == 2

\* steps by which the clock advances: half a week, and 165 h, which lies
\* between 7 * 23 h and 7 * 24 h
TickSteps == {84, 165}

\* ages, in hours, of the last-synced stamp found on disk in Init
InitAges == {0, 161, 162, 168, 169, 192, 1176, 1177}

-----------------------------------------------------------------------------
(* environment.ts *)

syncInterval == 7

-----------------------------------------------------------------------------
(* Strings: tuples of one-character strings *)

Lower(ch) ==
    CASE ch = "A" -> "a"
      [] ch = "B" -> "b"
      [] ch = "F" -> "f"
      [] ch = "N" -> "n"
      [] ch = "P" -> "p"
      [] OTHER -> ch

\* String.prototype.toLowerCase
toLowerCase(s) == [i \in 1..Len(s) |-> Lower(s[i])]

\* String.prototype.startsWith
startsWith(s, q) ==
    Len(q) <= Len(s) /\ \A i \in 1..Len(q) : s[i] = q[i]

\* String.prototype.includes
includes(s, q) ==
    \E off \in 0..(Len(s) - Len(q)) :
        \A i \in 1..Len(q) : s[off + i] = q[i]

DigitChars == <<"0", "1", "2", "3", "4", "5", "6", "7", "8", "9">>

RECURSIVE Digits(_)
Digits(n) ==
    IF n < 10 THEN <<DigitChars[n + 1]>>
    ELSE Append(Digits(n \div 10), DigitChars[(n % 10) + 1])

\* JSON.stringify of a number such as Date.now(): its decimal digits
JSONstringify(n) == Digits(n)

DigitValue(ch) == CHOOSE d \in 0..9 : DigitChars[d + 1] = ch

IsDigit(ch) == \E d \in 0..9 : DigitChars[d + 1] = ch

RECURSIVE DigitsValue(_)
DigitsValue(t) ==
    IF Len(t) = 0 THEN 0
    ELSE 10 * DigitsValue(SubSeq(t, 1, Len(t) - 1)) + DigitValue(t[Len(t)])

\* Number(text): the empty string is 0, decimal digits are their value,
\* anything else is NaN
Number(t) ==
    IF \A i \in 1..Len(t) : IsDigit(t[i])
    THEN [nan |-> FALSE, val |-> DigitsValue(t)]
    ELSE [nan |-> TRUE, val |-> 0]

-----------------------------------------------------------------------------
(* Values *)

Main == "countries.ts"
PartA == "part_000/1"
PartB == "part_000/2"
Variants == {Main, PartA, PartB}

NoUrl == [base |-> "", ext |-> ""]
Url(b, e) == [base |-> b, ext |-> e]

\* country.flags: absent, or an object whose png and svg may be missing
NoFlags == [present |-> FALSE, png |-> NoUrl, svg |-> NoUrl]
FlagsOf(p, s) == [present |-> TRUE, png |-> p, svg |-> s]

\* the fields of a country that print reads and the response may lack
OptionalFields ==
    {"population", "region", "subregion", "latlng", "timezones", "tld",
     "capital"}

\* a country whose fields `missing` are undefined
CountryWithout(n, cap, f, missing) ==
    [name |-> [common |-> n], capital |-> cap, flags |-> f,
     missing |-> missing]

Country(n, cap, f) == CountryWithout(n, cap, f, {})

\* a parsed JSON body: an array of countries, or some other object
JArray(items) == [isArray |-> TRUE, items |-> items, raw |-> "array"]
JObject(raw) == [isArray |-> FALSE, items |-> <<>>, raw |-> raw]

Fr == Country(<<"F", "r">>, <<<<"P", "a">>>>,
              FlagsOf(Url("fr", "png"), Url("fr", "svg")))
Ni == Country(<<"N", "i">>, <<<<"N", "a">>>>,
              FlagsOf(NoUrl, Url("ni", "svg")))
An == Country(<<"a", "n">>, <<>>, NoFlags)

\* datasets the remote endpoint serves
D1 == <<Fr, An>>
D2 == <<Ni>>
Datasets == {D1, D2}

\* a response of the remote endpoint: ok with a dataset, not ok with a JSON
\* body, not ok with a body that is no JSON
OkResponse(d) == [ok |-> TRUE, isJson |-> TRUE, json |-> JArray(d), text |-> "dataset"]
ErrJsonResponse == [ok |-> FALSE, isJson |-> TRUE, json |-> JObject("E404"), text |-> "E404"]
ErrTextResponse == [ok |-> FALSE, isJson |-> FALSE, json |-> JObject(""), text |-> "E503"]
NoResponse == [ok |-> TRUE, isJson |-> FALSE, json |-> JObject(""), text |-> "none"]
Responses == {OkResponse(d) : d \in Datasets} \cup {ErrJsonResponse, ErrTextResponse}

-----------------------------------------------------------------------------
(* Cache store (util/cache.ts) *)

NoJson == [present |-> FALSE, val |-> JObject(""), by |-> 0]
NoTxt == [present |-> FALSE, val |-> <<>>, by |-> 0]
NoTable == [present |-> FALSE, val |-> <<>>, by |-> 0]

\* an entry, and the sync() call that wrote it (0: before the behaviour)
Entry(v, id) == [present |-> TRUE, val |-> v, by |-> id]

exists(c, key) == c[key].present

readJson(c, key) == c[key]

readTxt(c, key) == c[key]

saveJson(c, key, v, id) == [c EXCEPT ![key] = Entry(v, id)]

saveTxt(c, key, t, id) == [c EXCEPT ![key] = Entry(t, id)]

-----------------------------------------------------------------------------
(* Countries.shouldSync *)

\* `week` of countries.ts: syncInterval * 23 * 60 * 60 * 1000 ms
weekMain == syncInterval * 23

\* `week` of the first class of part_000: syncInterval * 7 * 24 * 60 * 60 * 1000 ms
weekPartA == syncInterval * 7 * 24

\* `week` of the second class of part_000: syncInterval * 23 * 60 * 60 * 1000 ms
weekPartB == syncInterval * 23

week(v) ==
    CASE v = Main -> weekMain
      [] v = PartA -> weekPartA
      [] v = PartB -> weekPartB

\* Date.now() - Number(lastSynced) > week; a comparison with NaN is false
updateDue(v, text, t) ==
    LET n == Number(text)
    IN  ~n.nan /\ t - n.val > week(v)

\* !lastSynced: the entry is absent, or its text is empty
falsy(entry) == ~entry.present \/ entry.val = <<>>

shouldSync(v, c, t) ==
    LET lastSynced == readTxt(c, "lastSynced")
        cacheExists == exists(c, "countries")
    IN  ~cacheExists \/ falsy(lastSynced) \/ updateDue(v, lastSynced.val, t)

\* the condition of the if statement of sync, config?.force left out
mustFetchUnforced(v, c, t, force) == shouldSync(v, c, t)

\* the condition of the if statement of sync: this.shouldSync() || config?.force
mustFetch(v, c, t, force) == shouldSync(v, c, t) \/ force

-----------------------------------------------------------------------------
(* Countries.generateFlagImgs: the flag URL of one country *)

\* countries.ts and the second class of part_000:
\* country.flags["png"].replace(".png", ".jpg"), a TypeError when flags or
\* flags.png is missing
flagUrlStrict(c) ==
    IF c.flags.present /\ c.flags.png # NoUrl
    THEN [kind |-> "url", url |-> Url(c.flags.png.base, "jpg")]
    ELSE [kind |-> "throw", url |-> NoUrl]

\* the first class of part_000:
\* country.flags?.png || country.flags?.svg || "N/A", and continue on "N/A"
flagUrlLenient(c) ==
    IF c.flags.present /\ c.flags.png # NoUrl
    THEN [kind |-> "url", url |-> c.flags.png]
    ELSE IF c.flags.present /\ c.flags.svg # NoUrl
    THEN [kind |-> "url", url |-> c.flags.svg]
    ELSE [kind |-> "skip", url |-> NoUrl]

flagUrl(v, c) == IF v = PartA THEN flagUrlLenient(c) ELSE flagUrlStrict(c)

\* imageConverter.getImageStrings(url): the lines rendered for the url
getImageStrings(u) == <<u>>

\* the two classes of part_000 test response.ok, countries.ts does not
checksOk(v) == v \in {PartA, PartB}

\* the names lower-cased
mapNamesLower(items) ==
    [i \in 1..Len(items) |-> toLowerCase(items[i].name.common)]

\* this.list.map((c) => c.name.common)
mapNames(items) == [i \in 1..Len(items) |-> items[i].name.common]

-----------------------------------------------------------------------------
(* Countries.find *)

\* the last of the positions, 0 if there is none
LastPos(hits) ==
    IF hits = {} THEN 0
    ELSE CHOOSE i \in hits : \A j \in hits : i >= j

\* Array.prototype.find: the first of the positions whose element satisfies
\* the callback, 0 if there is none
FirstPos(hits) ==
    IF hits = {} THEN 0
    ELSE CHOOSE i \in hits : \A j \in hits : i <= j

\* the positions at which the callback of the exact pass returns true
exactHits(items, q) ==
    {i \in 1..Len(items) : toLowerCase(items[i].name.common) = q}

\* the fuzzy pass with the operands of includes exchanged
fuzzyHitsSwapped(items, q) ==
    {i \in 1..Len(items) : includes(q, toLowerCase(items[i].name.common))}

\* the positions at which the callback of the fuzzy pass returns true
fuzzyHits(items, q) ==
    {i \in 1..Len(items) : includes(toLowerCase(items[i].name.common), q)}

\* find with the exact pass left out
findFuzzyOnly(l, name) ==
    LET q == toLowerCase(name)
        pos == FirstPos(fuzzyHits(l.items, q))
    IN  IF ~l.isArray THEN [kind |-> "TypeError", pos |-> 0, query |-> name]
        ELSE IF pos = 0 THEN [kind |-> "notFound", pos |-> 0, query |-> name]
        ELSE [kind |-> "ok", pos |-> pos, query |-> name]

\* the outcome of find(name): the position in this.list of the country
\* returned, or the thrown "Cannot find country named ..."
find(l, name) ==
    LET q == toLowerCase(name)
        e == FirstPos(exactHits(l.items, q))
        f == FirstPos(fuzzyHits(l.items, q))
        pos == IF e # 0 THEN e ELSE f
    IN  IF ~l.isArray THEN [kind |-> "TypeError", pos |-> 0, query |-> name]
        ELSE IF pos = 0 THEN [kind |-> "notFound", pos |-> 0, query |-> name]
        ELSE [kind |-> "ok", pos |-> pos, query |-> name]

-----------------------------------------------------------------------------
(* State *)

EmptyList == JArray(<<>>)

NoResult == [kind |-> "none", body |-> "", at |-> "idle"]

NoFound == [kind |-> "none", pos |-> 0, query |-> <<>>]

NoCfg == [force |-> FALSE, flagAscii |-> FALSE]

\* random() not called yet
NoPick == [kind |-> "none", name |-> <<>>]

\* print() not called yet
NoPrint ==
    [kind |-> "none", query |-> <<>>, pos |-> 0, flag |-> "",
     fields |-> [f \in OptionalFields |-> ""]]

Started(force, flagAscii, c, t, prev) ==
    [force |-> force, flagAscii |-> flagAscii, cache |-> c, now |-> t,
     prev |-> prev]

\* the flag table generateFlagImgs of PartA builds for a dataset
RECURSIVE TableOf(_)
TableOf(d) ==
    IF d = <<>> THEN <<>>
    ELSE LET c == d[Len(d)]
             u == flagUrlLenient(c)
             rest == TableOf(SubSeq(d, 1, Len(d) - 1))
         IN  IF u.kind = "url"
             THEN Append(rest, [countryName |-> c.name.common,
                                flagString |-> getImageStrings(u.url)])
             ELSE rest

\* the cache directory found at the start: empty, or left by an earlier
\* complete sync of some dataset, with or without flag art
InitCaches ==
    {[countries |-> NoJson, lastSynced |-> NoTxt, flags |-> NoTable]}
    \cup
    {[countries |-> Entry(JArray(d), 0),
      lastSynced |-> Entry(JSONstringify(Epoch - a), 0),
      flags |-> f] :
        d \in {D1}, a \in InitAges,
        f \in {NoTable, Entry(TableOf(D1), 0)}}

Init ==
    /\ variant \in Variants
    /\ now = Epoch
    /\ cache \in InitCaches
    /\ list = EmptyList
    /\ names = <<>>
    /\ flags = <<>>
    /\ pc = "idle"
    /\ cfg = NoCfg
    /\ countries = EmptyList
    /\ data = <<>>
    /\ idx = 0
    /\ index = 0
    /\ syncId = 0
    /\ start = Started(FALSE, FALSE, cache, now, NoResult)
    /\ path = "none"
    /\ fetchCount = 0
    /\ renderCount = 0
    /\ response = NoResponse
    /\ result = NoResult
    /\ found = NoFound
    /\ progress = <<>>
    /\ capitalFound = NoFound
    /\ picked = NoPick
    /\ printed = NoPrint

-----------------------------------------------------------------------------
(* Countries.sync *)
(* sync is an async function: it is cut at its awaits (fetch, each         *)
(* getImageStrings) and between its two cache writes, because the process  *)
(* can end at any of these points (Terminate) and the cache directory      *)
(* outlives it.  The code between two cuts is one step.                     *)

\* an exception leaves sync: the promise rejects, the object stays as it is
Throw(kind, body) ==
    /\ pc' = "idle"
    /\ result' = [kind |-> kind, body |-> body, at |-> pc]

\* sync fails on the response: it re-issues the request instead of throwing
FetchFailedRetry(kind, body) ==
    /\ pc' = "fetching"
    /\ fetchCount' = fetchCount + 1
    /\ UNCHANGED result

\* sync fails on the response: throw new Error(`API Error: ${text}`), or the
\* rejection of fetch() or of response.json()
FetchFailed(kind, body) ==
    /\ Throw(kind, body)
    /\ UNCHANGED fetchCount

\* the else branch: this.list and this.flags are read from the cache
loadFlags(c) ==
    IF readJson(c, "flags").present THEN readJson(c, "flags").val ELSE <<>>

\* sync(config) up to its first await: the fetch is issued, or the whole
\* cache branch runs
SyncStart(force, flagAscii) ==
    /\ progress' = <<>>
    /\ UNCHANGED lookups
    /\ pc = "idle"
    /\ syncId < MaxSyncs
    /\ syncId' = syncId + 1
    /\ cfg' = [force |-> force, flagAscii |-> flagAscii]
    /\ start' = Started(force, flagAscii, cache, now, result)
    /\ renderCount' = 0
    /\ response' = NoResponse
    /\ UNCHANGED <<variant, now, cache, countries, data, idx, index, found>>
    /\ IF mustFetch(variant, cache, now, force)
       THEN /\ pc' = "fetching"
            /\ path' = "fetch"
            /\ fetchCount' = 1
            /\ result' = NoResult
            /\ UNCHANGED <<list, names, flags>>
       ELSE /\ path' = "cache"
            /\ fetchCount' = 0
            /\ list' = readJson(cache, "countries").val
            /\ flags' = loadFlags(cache)
            /\ pc' = "idle"
            /\ IF list'.isArray
               THEN /\ names' = mapNames(list'.items)
                    /\ result' = [kind |-> "ok", body |-> "", at |-> "idle"]
               ELSE /\ names' = names
                    /\ result' = [kind |-> "TypeError", body |-> "", at |-> "map"]

\* fetch() rejects: no response at all
FetchReject ==
    /\ UNCHANGED <<progress, lookups>>
    /\ pc = "fetching"
    /\ FetchFailed("NetworkError", "")
    /\ UNCHANGED <<variant, now, cache, list, names, flags, cfg, countries,
                   data, idx, index, syncId, start, path, renderCount, response,
                   found>>

\* the response arrives: response.ok is tested (part_000 only), the body is
\* parsed, this.list is assigned
Respond(resp) ==
    /\ UNCHANGED <<progress, lookups>>
    /\ pc = "fetching"
    /\ response' = resp
    /\ UNCHANGED <<variant, now, cache, names, flags, cfg, data, idx, index,
                   syncId, start, path, renderCount, found>>
    /\ IF checksOk(variant) /\ ~resp.ok
       THEN /\ FetchFailed("ApiError", resp.text)
            /\ UNCHANGED <<list, countries>>
       ELSE IF ~resp.isJson
       THEN /\ FetchFailed("SyntaxError", "")
            /\ UNCHANGED <<list, countries>>
       ELSE /\ countries' = resp.json
            /\ list' = resp.json
            /\ pc' = "saveCountries"
            /\ UNCHANGED <<fetchCount, result>>

\* this.cache.saveJson("countries", countries)
SaveCountries ==
    /\ UNCHANGED <<progress, lookups>>
    /\ pc = "saveCountries"
    /\ cache' = saveJson(cache, "countries", countries, syncId)
    /\ pc' = "saveLastSynced"
    /\ UNCHANGED <<variant, now, list, names, flags, cfg, countries, data, idx,
                   index, syncId, start, path, fetchCount, renderCount, response,
                   result, found>>

\* this.cache.saveTxt("last-synced", JSON.stringify(Date.now())), then the
\* test of config?.flagAscii
SaveLastSynced ==
    /\ UNCHANGED <<progress, lookups>>
    /\ pc = "saveLastSynced"
    /\ cache' = saveTxt(cache, "lastSynced", JSONstringify(now), syncId)
    /\ IF cfg.flagAscii
       THEN pc' = "flagLoop" /\ data' = <<>> /\ idx' = 1 /\ index' = 0
       ELSE pc' = "finish" /\ UNCHANGED <<data, idx, index>>
    /\ UNCHANGED <<variant, now, list, names, flags, cfg, countries, syncId,
                   start, path, fetchCount, renderCount, response, result,
                   found>>

\* one turn of the for-of loop of generateFlagImgs; rendered tells whether
\* getImageStrings resolves or rejects
FlagStep(rendered) ==
    /\ UNCHANGED lookups
    /\ pc = "flagLoop"
    /\ countries.isArray
    /\ idx <= Len(countries.items)
    /\ UNCHANGED <<variant, now, cache, list, names, flags, cfg, countries,
                   syncId, start, path, fetchCount, response, found>>
    /\ LET c == countries.items[idx]
           u == flagUrl(variant, c)
       IN  CASE u.kind = "throw" ->
                  /\ rendered
                  /\ Throw("TypeError", "")
                  /\ UNCHANGED <<data, idx, index, renderCount, progress>>
             [] u.kind = "skip" ->
                  /\ rendered
                  /\ idx' = idx + 1
                  /\ UNCHANGED <<data, index, renderCount, pc, result, progress>>
             [] u.kind = "url" /\ rendered ->
                  /\ renderCount' = renderCount + 1
                  /\ data' = Append(data, [countryName |-> c.name.common,
                                           flagString |-> getImageStrings(u.url)])
                  /\ index' = index + 1
                  /\ progress' = Append(progress,
                        [index |-> index + 1, total |-> Len(countries.items),
                         countryName |-> c.name.common])
                  /\ idx' = idx + 1
                  /\ UNCHANGED <<pc, result>>
             [] u.kind = "url" /\ ~rendered ->
                  /\ renderCount' = renderCount + 1
                  /\ Throw("RenderError", "")
                  /\ UNCHANGED <<data, idx, index, progress>>

\* the loop is over: this.flags = flagStrings, saveJson("flags", flagStrings);
\* for-of over a value that is no array is a TypeError
FlagsDone ==
    /\ UNCHANGED <<progress, lookups>>
    /\ pc = "flagLoop"
    /\ UNCHANGED <<variant, now, list, names, cfg, countries, data, idx, index,
                   syncId, start, path, fetchCount, renderCount, response,
                   found>>
    /\ IF ~countries.isArray
       THEN /\ Throw("TypeError", "")
            /\ UNCHANGED <<flags, cache>>
       ELSE /\ idx > Len(countries.items)
            /\ flags' = data
            /\ cache' = saveJson(cache, "flags", data, syncId)
            /\ pc' = "finish"
            /\ UNCHANGED result

\* logger.success, this.names = this.list.map(...), return this.list
Finish ==
    /\ UNCHANGED <<progress, lookups>>
    /\ pc = "finish"
    /\ UNCHANGED <<variant, now, cache, list, flags, cfg, countries, data, idx,
                   index, syncId, start, path, fetchCount, renderCount, response,
                   found>>
    /\ IF list.isArray
       THEN /\ names' = mapNames(list.items)
            /\ pc' = "idle"
            /\ result' = [kind |-> "ok", body |-> "", at |-> "idle"]
       ELSE /\ Throw("TypeError", "")
            /\ UNCHANGED names

\* the process ends, by itself or killed: the next command starts with a new
\* Countries object over the same cache directory
Terminate ==
    /\ UNCHANGED <<progress, lookups>>
    /\ pc # "idle" \/ list # EmptyList \/ flags # <<>>
    /\ list' = EmptyList
    /\ names' = <<>>
    /\ flags' = <<>>
    /\ pc' = "idle"
    /\ cfg' = NoCfg
    /\ countries' = EmptyList
    /\ data' = <<>>
    /\ idx' = 0
    /\ index' = 0
    /\ found' = NoFound
    /\ result' = IF pc # "idle" THEN [kind |-> "killed", body |-> "", at |-> pc]
                 ELSE result
    /\ UNCHANGED <<variant, now, cache, syncId, start, path, fetchCount,
                   renderCount, response>>

\* time passes, between commands or while sync awaits
Tick(d) ==
    /\ UNCHANGED <<progress, lookups>>
    /\ pc \in {"idle", "fetching"}
    /\ now + d <= Epoch + MaxElapsed
    /\ now' = now + d
    /\ UNCHANGED <<variant, cache, list, names, flags, pc, cfg, countries, data,
                   idx, index, syncId, start, path, fetchCount, renderCount,
                   response, result, found>>

\* find(name) on the loaded list
Find(name) ==
    /\ UNCHANGED <<progress, lookups>>
    /\ pc = "idle"
    /\ found' = find(list, name)
    /\ UNCHANGED <<variant, now, cache, list, names, flags, pc, cfg, countries,
                   data, idx, index, syncId, start, path, fetchCount,
                   renderCount, response, result>>

\* the positions whose callback returns true: some capital, lower-cased,
\* is the query as it was passed
capitalHits(items, capital) ==
    {i \in 1..Len(items) :
        /\ "capital" \notin items[i].missing
        /\ \E k \in 1..Len(items[i].capital) :
              toLowerCase(items[i].capital[k]) = capital}

\* the positions whose callback throws: c.capital is undefined
capitalThrows(items) ==
    {i \in 1..Len(items) : "capital" \in items[i].missing}

\* findByCapital(capital): list.find stops at the first hit, and the
\* callback throws at a country without capital that comes before it
findByCapital(l, capital) ==
    LET hit == FirstPos(capitalHits(l.items, capital))
        bad == FirstPos(capitalThrows(l.items))
    IN  IF ~l.isArray THEN [kind |-> "TypeError", pos |-> 0, query |-> capital]
        ELSE IF bad # 0 /\ (hit = 0 \/ bad < hit)
        THEN [kind |-> "TypeError", pos |-> bad, query |-> capital]
        ELSE IF hit = 0 THEN [kind |-> "notFound", pos |-> 0, query |-> capital]
        ELSE [kind |-> "ok", pos |-> hit, query |-> capital]

\* capitalOf(capital)
capitalOf(l, capital) ==
    IF capital = <<>>
    THEN [kind |-> "usage", pos |-> 0, query |-> capital]
    ELSE findByCapital(l, capital)

\* capitalOf called between syncs; the first class of part_000 has no
\* such method
CapitalOf(capital) ==
    /\ pc = "idle"
    /\ variant # PartA
    /\ capitalFound' = capitalOf(list, capital)
    /\ UNCHANGED <<variant, now, cache, list, names, flags, pc, cfg, countries,
                   data, idx, index, syncId, start, path, fetchCount,
                   renderCount, response, result, found, progress, picked,
                   printed>>

\* the values of Math.floor(Math.random() * length): Math.random() is in
\* [0, 1)
randomNums(length) == IF length = 0 THEN {0} ELSE 0..(length - 1)

\* this.names[randomNum]: undefined beyond the end of the array
random(ns, randomNum) ==
    IF randomNum < Len(ns)
    THEN [kind |-> "ok", name |-> ns[randomNum + 1]]
    ELSE [kind |-> "undefined", name |-> <<>>]

\* random() called between syncs
Random ==
    /\ pc = "idle"
    /\ \E randomNum \in randomNums(Len(names)) :
          picked' = random(names, randomNum)
    /\ UNCHANGED <<variant, now, cache, list, names, flags, pc, cfg, countries,
                   data, idx, index, syncId, start, path, fetchCount,
                   renderCount, response, result, found, progress,
                   capitalFound, printed>>

\* this.flags.find((i) => i.countryName === country.name.common)
hasFlagAscii(fl, c) ==
    \E k \in 1..Len(fl) : fl[k].countryName = c.name.common

\* the fields print of countries.ts dereferences without a guard
Unguarded == {"latlng", "capital", "population", "timezones"}

\* what logCountry receives for field f of country c from print of
\* countries.ts: tld has a fallback, region and subregion are passed as they
\* are, capital[0] of an empty list is undefined
fieldMain(c, f) ==
    IF f = "tld" THEN (IF f \in c.missing THEN "N/A" ELSE "value")
    ELSE IF f = "capital" THEN (IF c.capital = <<>> THEN "undefined" ELSE "value")
    ELSE IF f \in c.missing THEN "undefined"
    ELSE "value"

\* the same from print of part_000: country.f?. ... ?? "N/A"
fieldPart(c, f) ==
    IF f \in c.missing THEN "N/A"
    ELSE IF f = "capital" /\ c.capital = <<>> THEN "N/A"
    ELSE "value"

\* print(name) of countries.ts: the flag art is logged if there is any and
\* nothing is logged in its place if there is none (the closing line
\* `Flag: ${flagUrl}` shows a URL of flags.json, not the art); building the
\* argument of logCountry throws on an absent unguarded field
printMain(l, fl, f) ==
    LET c == l.items[f.pos]
        flag == IF hasFlagAscii(fl, c) THEN "shown" ELSE "silent"
    IN  IF c.missing \cap Unguarded # {}
        THEN [kind |-> "TypeError", query |-> f.query, pos |-> f.pos,
              flag |-> flag, fields |-> [g \in OptionalFields |-> ""]]
        ELSE [kind |-> "ok", query |-> f.query, pos |-> f.pos, flag |-> flag,
              fields |-> [g \in OptionalFields |-> fieldMain(c, g)]]

\* print(name) of the two classes of part_000
printPart(l, fl, f) ==
    LET c == l.items[f.pos]
    IN  [kind |-> "ok", query |-> f.query, pos |-> f.pos,
         flag |-> IF hasFlagAscii(fl, c) THEN "shown" ELSE "N/A",
         fields |-> [g \in OptionalFields |-> fieldPart(c, g)]]

\* print(name): the exception of find leaves print
print(v, l, fl, name) ==
    LET f == find(l, name)
    IN  IF f.kind # "ok"
        THEN [kind |-> f.kind, query |-> name, pos |-> 0, flag |-> "",
              fields |-> [g \in OptionalFields |-> ""]]
        ELSE IF v = Main THEN printMain(l, fl, f)
        ELSE printPart(l, fl, f)

\* print called between syncs
PrintCountry(name) ==
    /\ pc = "idle"
    /\ printed' = print(variant, list, flags, name)
    /\ UNCHANGED <<variant, now, cache, list, names, flags, pc, cfg, countries,
                   data, idx, index, syncId, start, path, fetchCount,
                   renderCount, response, result, found, progress,
                   capitalFound, picked>>

Next ==
    \/ \E force \in BOOLEAN, flagAscii \in BOOLEAN : SyncStart(force, flagAscii)
    \/ FetchReject
    \/ \E resp \in Responses : Respond(resp)
    \/ SaveCountries
    \/ SaveLastSynced
    \/ \E rendered \in BOOLEAN : FlagStep(rendered)
    \/ FlagsDone
    \/ Finish
    \/ Terminate
    \/ \E d \in TickSteps : Tick(d)

Spec == Init /\ [][Next]_vars

-----------------------------------------------------------------------------
(* Properties of sync *)

\* the number written in a last-synced entry
Stamp(c) == Number(c.lastSynced.val).val

\* both entries the freshness test reads are there
BothPresent(c) == c.countries.present /\ c.lastSynced.present

\* age of the cache when the latest sync() started, in hours
AgeAtStart == start.now - Stamp(start.cache)

\* the interval of the specification: syncInterval days of 24 hours
IntervalHours == syncInterval * 24

\* the latest sync() was called without force on a cache holding both entries
UnforcedOnCache == syncId > 0 /\ ~start.force /\ BothPresent(start.cache)

\* the latest sync() has left the fetch: it threw there, or went on
AfterResponse == response # NoResponse

\* the latest sync() was stopped inside generateFlagImgs, by an exception or
\* by the end of the process
StoppedInFlags(r) == r.at = "flagLoop"

\* both entries were written by the latest sync()
WrittenByLatest ==
    /\ cache.countries.present /\ cache.countries.by = syncId
    /\ cache.lastSynced.present /\ cache.lastSynced.by = syncId

\* C1: with 'countries' cached and force=false, a stamp of now minus
\* (syncInterval + 1) days makes sync fetch, and a stamp of now makes it
\* serve the cache without a fetch.
C1_StalenessExamples ==
    UnforcedOnCache =>
        /\ (AgeAtStart = (syncInterval + 1) * 24 => path = "fetch" /\ fetchCount = 1)
        /\ (AgeAtStart = 0 => path = "cache" /\ fetchCount = 0)

\* C2: sync(force=false) fetches exactly when the stamp is missing, the
\* 'countries' entry is missing, or now - lastSynced > syncInterval * 24 h;
\* for every age up to syncInterval * 24 h with both entries present it
\* serves the cache.
C2_StaleExactly ==
    (syncId > 0 /\ ~start.force) =>
        ((path = "fetch") <=>
            \/ ~start.cache.countries.present
            \/ ~start.cache.lastSynced.present
            \/ AgeAtStart > IntervalHours)

\* C3: sync(force=true) always issues a fetch, whatever the cache holds and
\* whatever the stamp is, a stamp equal to now included.
C3_ForceAlwaysFetches ==
    (syncId > 0 /\ start.force) => (path = "fetch" /\ fetchCount >= 1)

C3_Witness ==
    /\ syncId > 0 /\ start.force /\ pc = "fetching"
    /\ BothPresent(start.cache) /\ AgeAtStart = 0
    /\ ~shouldSync(variant, start.cache, start.now)

\* C4: with flag art requested, 'countries' and 'last-synced' are persisted
\* before the first render call; when generateFlagImgs is stopped by a failed
\* render or by the end of the process, both entries are the ones this sync
\* wrote, and the next non-forced run within the interval (syncInterval days)
\* serves that dataset from the cache.
C4_PersistBeforeFlags ==
    /\ (renderCount > 0 \/ pc = "flagLoop" \/ StoppedInFlags(result)) =>
            WrittenByLatest
    /\ (UnforcedOnCache /\ StoppedInFlags(start.prev)
            /\ start.prev.kind \in {"RenderError", "killed"}
            /\ start.cache.countries.val.isArray
            /\ start.cache.countries.by = start.cache.lastSynced.by
            /\ AgeAtStart <= IntervalHours) =>
            (path = "cache" /\ cache.countries = start.cache.countries)

\* C5: in every state a later run can observe, 'countries' and 'last-synced'
\* were written by the same sync: never a new 'countries' entry with an
\* older or absent 'last-synced' entry.
C5_WrittenTogether ==
    pc = "idle" =>
        /\ cache.countries.present = cache.lastSynced.present
        /\ cache.countries.by = cache.lastSynced.by

\* C6: when the endpoint answers with a non-success response, sync fails
\* with an error carrying the response body, and 'countries', 'last-synced'
\* and 'flags' are as they were before the call.
C6_NonSuccessResponse ==
    (AfterResponse /\ ~response.ok) =>
        /\ result.kind \in {"ApiError", "killed"}
        /\ result.kind = "ApiError" => result.body = response.text
        /\ cache = start.cache

\* C7: a non-forced sync on a fresh cache (both entries present, age within
\* the interval of syncInterval days) issues no fetch, writes no entry and
\* returns the cached snapshot.
C7_FreshServesCache ==
    (UnforcedOnCache /\ AgeAtStart >= 0 /\ AgeAtStart <= IntervalHours) =>
        /\ path = "cache"
        /\ fetchCount = 0
        /\ cache = start.cache
        /\ (result.kind = "ok" /\ list # EmptyList) => list = cache.countries.val

\* C8: one call of sync issues at most one fetch, whether it succeeds or
\* fails: nothing is retried.
C8_AtMostOneFetch == fetchCount <= 1

C8_Witness ==
    /\ pc = "idle" /\ path = "fetch" /\ fetchCount = 1
    /\ result.kind \in {"ApiError", "SyntaxError", "NetworkError"}

\* C9: on the cache branch, when the 'flags' entry is absent, sync succeeds
\* and this.flags is empty.
C9_AbsentFlagsIsValid ==
    (syncId > 0 /\ path = "cache" /\ ~start.cache.flags.present) =>
        (result.kind = "ok" /\ flags = <<>>)

\* sync() has returned and the object still holds what it loaded
Returned == pc = "idle" /\ syncId > 0 /\ result.kind = "ok"

\* C15 as stated: after sync returns, on either path, the name index has one
\* entry per country of the snapshot, in source order, each the lower-cased
\* common name of the country at that position.
C15_NamesCaseNormalized ==
    Returned =>
        /\ Len(names) = Len(list.items)
        /\ \A i \in 1..Len(names) :
              names[i] = toLowerCase(list.items[i].name.common)

\* C15 amended: each entry is the common name as the source spells it.
C15_NamesAsSpelled ==
    Returned =>
        /\ Len(names) = Len(list.items)
        /\ \A i \in 1..Len(names) : names[i] = list.items[i].name.common

\* a fetched snapshot of two countries, one spelled with a capital letter
C15_Witness ==
    /\ Returned
    /\ path = "fetch"
    /\ Len(names) = 2
    /\ \E i \in 1..Len(names) : names[i] # toLowerCase(names[i])

\* the render calls C17 prescribes for a dataset: none for a country without
\* flag reference, the png reference if there is one (fetched as it is or in
\* its jpg encoding), else the svg reference
RECURSIVE ExpectedRenders(_)
ExpectedRenders(d) ==
    IF d = <<>> THEN <<>>
    ELSE LET c == d[Len(d)]
             rest == ExpectedRenders(SubSeq(d, 1, Len(d) - 1))
         IN  IF c.flags.present /\ c.flags.png # NoUrl
             THEN Append(rest, [countryName |-> c.name.common,
                                base |-> c.flags.png.base,
                                exts |-> {"png", "jpg"}])
             ELSE IF c.flags.present /\ c.flags.svg # NoUrl
             THEN Append(rest, [countryName |-> c.name.common,
                                base |-> c.flags.svg.base,
                                exts |-> {"svg"}])
             ELSE rest

\* the entries rendered so far are the prescribed ones, in their order
RendersMatch(rendered, expected) ==
    /\ Len(rendered) = Len(expected)
    /\ \A k \in 1..Len(rendered) :
          /\ rendered[k].countryName = expected[k].countryName
          /\ rendered[k].flagString[1].base = expected[k].base
          /\ rendered[k].flagString[1].ext \in expected[k].exts

\* C17 as stated: generateFlagImgs skips a country without any flag
\* reference, with no error and no render call, and renders every other
\* country in source order from its png reference when it has one and from
\* its svg reference otherwise.
C17_FlaglessSkipped ==
    /\ ~(result.kind = "TypeError" /\ StoppedInFlags(result)
            /\ countries.isArray)
    /\ (pc = "flagLoop" /\ countries.isArray) =>
            RendersMatch(data,
                ExpectedRenders(SubSeq(countries.items, 1, idx - 1)))

\* the progress reports of the first n items of the loop: one per item,
\* numbered from 1, each with the size of the snapshot as total
ReportsUpTo(n) ==
    /\ Len(progress) = n
    /\ \A k \in 1..Len(progress) :
          /\ progress[k].index = k
          /\ progress[k].total = Len(countries.items)
          /\ progress[k].countryName = countries.items[k].name.common

\* C19 as stated: over a snapshot of N countries generateFlagImgs handles the
\* items one at a time in source order and reports progress once after each
\* item, with current index 1, 2, ..., N and total N, so that the last report
\* has current index = total; 'flags' is written once, only after the last
\* item.
C19_ProgressAfterEachItem ==
    /\ (pc = "flagLoop" /\ countries.isArray) =>
            (ReportsUpTo(idx - 1) /\ cache.flags = start.cache.flags)
    /\ (syncId > 0 /\ start.flagAscii /\ cache.flags.present
            /\ cache.flags.by = syncId /\ countries.isArray
            /\ countries.items # <<>>) =>
            (/\ ReportsUpTo(Len(countries.items))
             /\ progress[Len(progress)].index = progress[Len(progress)].total)

\* whichever branch sync takes: the fetch branch without flag art leaves the
\* 'flags' entry as it was and this.flags of a new object empty, the cache
\* branch loads the entry into this.flags
FlagsFollowBranch ==
    /\ (syncId > 0 /\ path = "fetch" /\ ~start.flagAscii) =>
            cache.flags = start.cache.flags
    /\ (syncId = 1 /\ path = "fetch" /\ ~start.flagAscii) => flags = <<>>
    /\ (syncId > 0 /\ path = "cache" /\ pc = "idle" /\ list # EmptyList
            /\ start.cache.flags.present) =>
            flags = start.cache.flags.val

\* the cache found by the latest sync() is stale: an entry is missing or the
\* stamp is older than the interval of syncInterval days
StaleAtStart ==
    ~BothPresent(start.cache) \/ AgeAtStart > IntervalHours

\* C20 as stated: a sync without flag art that is forced, or finds a stale
\* cache, leaves the 'flags' cache entry unchanged and does not load it, so
\* that this.flags of a new Countries object stays empty even when the entry
\* exists; a non-forced sync on a fresh cache loads the entry.
C20_StaleOrForcedLeavesFlags ==
    /\ (syncId > 0 /\ (start.force \/ StaleAtStart) /\ ~start.flagAscii) =>
            /\ cache.flags = start.cache.flags
            /\ syncId = 1 => flags = <<>>
    /\ (syncId > 0 /\ ~start.force /\ ~StaleAtStart /\ AgeAtStart >= 0
            /\ pc = "idle" /\ list # EmptyList
            /\ start.cache.flags.present) =>
            flags = start.cache.flags.val

-----------------------------------------------------------------------------
(* find on every small dataset *)

\* countries of a dataset in one behaviour of SpecFind
MaxCountries == 3

\* common names: case variants of one name, names containing other names
FindNames ==
    {<<"a">>, <<"A">>, <<"b">>, <<"a", "b">>, <<"A", "b">>, <<"a", "B">>,
     <<"b", "a">>}

\* queries: the names, and strings that are no name
Queries == FindNames \cup {<<>>, <<"B">>, <<"A", "B">>, <<"b", "b">>}

RECURSIVE SeqsUpTo(_, _)
SeqsUpTo(S, n) ==
    IF n = 0 THEN {<<>>}
    ELSE LET shorter == SeqsUpTo(S, n - 1)
         IN  shorter \cup {Append(q, x) : q \in shorter, x \in S}

FindDatasets ==
    SeqsUpTo({Country(n, <<>>, NoFlags) : n \in FindNames}, MaxCountries)

\* the state after sync() has served dataset d from the cache
InitFind ==
    \E d \in FindDatasets :
        /\ variant \in Variants
        /\ now = Epoch
        /\ cache = [countries |-> Entry(JArray(d), 0),
                    lastSynced |-> Entry(JSONstringify(Epoch), 0),
                    flags |-> NoTable]
        /\ list = JArray(d)
        /\ names = mapNames(d)
        /\ flags = <<>>
        /\ pc = "idle"
        /\ cfg = NoCfg
        /\ countries = EmptyList
        /\ data = <<>>
        /\ idx = 0
        /\ index = 0
        /\ syncId = 1
        /\ start = Started(FALSE, FALSE, cache, now, NoResult)
        /\ path = "cache"
        /\ fetchCount = 0
        /\ renderCount = 0
        /\ response = NoResponse
        /\ result = [kind |-> "ok", body |-> "", at |-> "idle"]
        /\ found = NoFound
        /\ progress = <<>>
        /\ capitalFound = NoFound
        /\ picked = NoPick
        /\ printed = NoPrint

NextFind == \E name \in Queries : Find(name)

SpecFind == InitFind /\ [][NextFind]_vars

\* the positions of the countries whose common name is the query, letter
\* case ignored
SameName(name) ==
    {i \in 1..Len(list.items) :
        toLowerCase(list.items[i].name.common) = toLowerCase(name)}

Min(S) == CHOOSE x \in S : \A y \in S : x <= y

\* C10 as stated: find called with the common name of a country c of the
\* dataset, in any letter case, returns c itself.
C10_FindReturnsThatCountry ==
    found.kind # "none" =>
        \A i \in SameName(found.query) : found.kind = "ok" /\ found.pos = i

\* C10 amended: find called with the common name of a country c, in any
\* letter case, returns the first country in dataset order whose common name
\* equals c's when letter case is ignored: c itself when no earlier country
\* has that name.
C10_FindReturnsFirstOfThatName ==
    (found.kind # "none" /\ SameName(found.query) # {}) =>
        (found.kind = "ok" /\ found.pos = Min(SameName(found.query)))

\* the query differs in case from the name of the country returned, which is
\* not the only one of that name and comes after a country whose name only
\* contains the query
C10_Witness ==
    /\ found.kind = "ok"
    /\ found.pos > 1
    /\ Cardinality(SameName(found.query)) > 1
    /\ list.items[found.pos].name.common # found.query
    /\ includes(toLowerCase(list.items[1].name.common), toLowerCase(found.query))

\* q occurs in s as a run of consecutive characters
Occurs(s, q) ==
    \E i \in 1..(Len(s) + 1) : \E j \in 0..Len(s) : SubSeq(s, i, j) = q

\* the positions of the countries whose common name contains the query,
\* letter case ignored
Containing(name) ==
    {i \in 1..Len(list.items) :
        Occurs(toLowerCase(list.items[i].name.common), toLowerCase(name))}

\* C11: the exact pass runs over the whole dataset before the substring
\* pass: if some name equals the query ignoring case, the first such country
\* in dataset order is returned, even when an earlier name merely contains
\* the query; only if no name is equal, the first country whose name
\* contains the query is returned.
C11_ExactPassThenSubstringPass ==
    found.kind # "none" =>
        /\ SameName(found.query) # {} =>
              (found.kind = "ok" /\ found.pos = Min(SameName(found.query)))
        /\ (SameName(found.query) = {} /\ Containing(found.query) # {}) =>
              (found.kind = "ok" /\ found.pos = Min(Containing(found.query)))

\* the only country of that name is returned although the first country of
\* the dataset contains the query
C11_Witness ==
    /\ found.kind = "ok"
    /\ SameName(found.query) = {found.pos}
    /\ found.pos > 1
    /\ 1 \in Containing(found.query)

\* C12: a query that is, ignoring case, a substring of exactly one country's
\* common name and equal to no name makes find return that country.
C12_UniqueSubstring ==
    (found.kind # "none" /\ SameName(found.query) = {}
        /\ Cardinality(Containing(found.query)) = 1) =>
        (found.kind = "ok" /\ Containing(found.query) = {found.pos})

\* the query occurs inside the name, not at its start, in another letter case
C12_Witness ==
    /\ found.kind = "ok"
    /\ SameName(found.query) = {}
    /\ Containing(found.query) = {found.pos}
    /\ Len(list.items) > 1
    /\ found.query # <<>>
    /\ SubSeq(toLowerCase(list.items[found.pos].name.common),
              1, Len(found.query)) # toLowerCase(found.query)
    /\ ~Occurs(list.items[found.pos].name.common, found.query)

\* C13: a query that equals no common name and is a substring of none,
\* ignoring case, makes find fail with the not-found error and return no
\* country; this.list, this.names and this.flags stay as they are.
C13_NotFound ==
    [][(found'.kind # "none" /\ SameName(found'.query) = {}
            /\ Containing(found'.query) = {}) =>
        (/\ found'.kind = "notFound"
         /\ found'.pos = 0
         /\ list' = list
         /\ names' = names
         /\ flags' = flags)]_vars

\* the query matches nothing although it contains a whole name
C13_Witness ==
    /\ found.kind = "notFound"
    /\ \E i \in 1..Len(list.items) :
          Occurs(toLowerCase(found.query), toLowerCase(list.items[i].name.common))

-----------------------------------------------------------------------------
(* Capital lookup over a synchronized dataset *)

Pa == <<"P", "a">>

CapitalLists == {<<>>, <<Pa>>, <<toLowerCase(Pa)>>, <<<<"N", "a">>, Pa>>}

\* countries with a capital list, an empty one, or none
CapitalCountries ==
    {Country(n, cap, NoFlags) : n \in {<<"a">>, <<"b">>}, cap \in CapitalLists}
    \cup {CountryWithout(n, <<>>, NoFlags, {"capital"}) : n \in {<<"a">>, <<"b">>}}

CapitalQueries ==
    {<<>>, Pa, toLowerCase(Pa), <<"P", "A">>, <<"p">>, <<"n", "a">>, <<"a">>}

\* the state after sync() has served dataset d, and the flag table entry
\* tbl, from the cache
ServedFromCache(d, tbl) ==
    /\ now = Epoch
    /\ cache = [countries |-> Entry(JArray(d), 0),
                lastSynced |-> Entry(JSONstringify(Epoch), 0),
                flags |-> tbl]
    /\ list = JArray(d)
    /\ names = mapNames(d)
    /\ flags = IF tbl.present THEN tbl.val ELSE <<>>
    /\ pc = "idle"
    /\ cfg = NoCfg
    /\ countries = EmptyList
    /\ data = <<>>
    /\ idx = 0
    /\ index = 0
    /\ syncId = 1
    /\ start = Started(FALSE, FALSE, cache, now, NoResult)
    /\ path = "cache"
    /\ fetchCount = 0
    /\ renderCount = 0
    /\ response = NoResponse
    /\ result = [kind |-> "ok", body |-> "", at |-> "idle"]
    /\ found = NoFound
    /\ progress = <<>>
    /\ capitalFound = NoFound
    /\ picked = NoPick
    /\ printed = NoPrint

InitCapital ==
    \E d \in SeqsUpTo(CapitalCountries, MaxCountries) :
        /\ variant \in Variants \ {PartA}
        /\ ServedFromCache(d, NoTable)

NextCapital == \E capital \in CapitalQueries : CapitalOf(capital)

SpecCapital == InitCapital /\ [][NextCapital]_vars

\* the positions of the countries one of whose capitals is the query, letter
\* case ignored on both sides
SameCapital(capital) ==
    {i \in 1..Len(list.items) :
        /\ "capital" \notin list.items[i].missing
        /\ \E k \in 1..Len(list.items[i].capital) :
              toLowerCase(list.items[i].capital[k]) = toLowerCase(capital)}

\* C14 as stated: capitalOf with a non-empty query in any letter case
\* resolves to the first country having a capital equal to the query when
\* case is ignored on both sides, fails with the not-found error when there
\* is none (a proper substring of a capital included), and a country with an
\* empty or absent capital list causes no other failure.
C14_CapitalIgnoringCase ==
    capitalFound.kind \notin {"none", "usage"} =>
        IF SameCapital(capitalFound.query) # {}
        THEN capitalFound.kind = "ok"
             /\ capitalFound.pos = Min(SameCapital(capitalFound.query))
        ELSE capitalFound.kind = "notFound"

-----------------------------------------------------------------------------
(* random over a synchronized dataset *)

InitRandom ==
    \E d \in FindDatasets :
        /\ variant \in Variants
        /\ ServedFromCache(d, NoTable)

NextRandom == Random

SpecRandom == InitRandom /\ [][NextRandom]_vars

\* C16 as stated: random returns a member of the name index when the index
\* is non-empty, and fails with an EmptyDataset error, returning no value,
\* when the index has no entry.
C16_RandomMemberOrEmptyDataset ==
    picked.kind # "none" =>
        IF names # <<>>
        THEN picked.kind = "ok"
             /\ \E i \in 1..Len(names) : names[i] = picked.name
        ELSE picked.kind = "EmptyDataset"

-----------------------------------------------------------------------------
(* print over a synchronized dataset *)

\* the sets of fields the country under test lacks: none, one, or all
MissingSets == {{}, OptionalFields} \cup {{f} : f \in OptionalFields}

\* a country lacking some fields or with an empty capital list, and a
\* complete one
PrintCountries ==
    {CountryWithout(<<"a">>, <<Pa>>, NoFlags, m) : m \in MissingSets}
    \cup {Country(<<"a">>, <<>>, NoFlags), Country(<<"b">>, <<Pa>>, NoFlags)}

\* the 'flags' entry: absent, or holding the art of the country under test
PrintTables ==
    {NoTable,
     Entry(<<[countryName |-> <<"a">>,
              flagString |-> getImageStrings(Url("a", "png"))]>>, 0)}

PrintQueries == {<<"a">>, <<"A">>, <<"b">>, <<"p">>}

InitPrint ==
    \E d \in SeqsUpTo(PrintCountries, MaxCountries), tbl \in PrintTables :
        /\ variant \in Variants
        /\ ServedFromCache(d, tbl)

NextPrint == \E name \in PrintQueries : PrintCountry(name)

SpecPrint == InitPrint /\ [][NextPrint]_vars

\* print was called with a query that find resolves
Resolved == printed.kind \notin {"none", "notFound"}

\* C18 as stated: print for any country that find resolves completes without
\* raising, whichever optional fields are absent and whether or not there is
\* flag art for it; each absent field, and an absent flag, is rendered as the
\* not-available marker.
C18_PrintTotal ==
    Resolved =>
        LET c == list.items[printed.pos]
        IN  /\ printed.kind = "ok"
            /\ \A f \in c.missing : printed.fields[f] = "N/A"
            /\ (\A k \in 1..Len(flags) : flags[k].countryName # c.name.common)
                  => printed.flag = "N/A"

-----------------------------------------------------------------------------
(* sync over a cache whose last-synced entry was damaged *)

\* texts of a last-synced entry that are no number: a letter, digits
\* followed by a letter, the text NaN; and the empty text
StampTexts == {<<"x">>, <<"1", "x">>, <<"N", "a", "N">>, <<>>}

\* the cache directory found at the start: both entries present, the text of
\* last-synced damaged
StampCaches ==
    {[countries |-> Entry(JArray(D1), 0),
      lastSynced |-> Entry(t, 0),
      flags |-> f] :
        t \in StampTexts, f \in {NoTable, Entry(TableOf(D1), 0)}}

InitStamp ==
    /\ variant \in Variants
    /\ now = Epoch
    /\ cache \in StampCaches
    /\ list = EmptyList
    /\ names = <<>>
    /\ flags = <<>>
    /\ pc = "idle"
    /\ cfg = NoCfg
    /\ countries = EmptyList
    /\ data = <<>>
    /\ idx = 0
    /\ index = 0
    /\ syncId = 0
    /\ start = Started(FALSE, FALSE, cache, now, NoResult)
    /\ path = "none"
    /\ fetchCount = 0
    /\ renderCount = 0
    /\ response = NoResponse
    /\ result = NoResult
    /\ found = NoFound
    /\ progress = <<>>
    /\ capitalFound = NoFound
    /\ picked = NoPick
    /\ printed = NoPrint

SpecStamp == InitStamp /\ [][Next]_vars

\* the text of the last-synced entry is not a valid number
NotANumber(entry) ==
    entry.present /\ (entry.val = <<>> \/ \E i \in 1..Len(entry.val) :
                          entry.val[i] \notin {"0", "1", "2", "3", "4", "5",
                                               "6", "7", "8", "9"})

\* C21: when the last-synced entry is present but its text is no valid
\* number, sync(force=false) treats the cache as stale and fetches; such a
\* cache is never served as fresh.
C21_UnusableStampRefetches ==
    (syncId > 0 /\ ~start.force /\ NotANumber(start.cache.lastSynced)) =>
        (path = "fetch" /\ fetchCount = 1)

====
